---- MODULE Spec2Model ----
(***************************************************************************)
(* File upload server (server.js): an Express application that keeps the   *)
(* uploaded files in UPLOAD_DIR and their metadata in one JSON document,   *)
(* metadata.json.  Every request handler loads the whole document, changes *)
(* it in memory and rewrites it.  Node runs a handler to completion until  *)
(* it reaches an await, so the only points where two requests interleave   *)
(* are: between multer's storing of the parts and the upload handler, and  *)
(* the `await fsp.unlink(abs)` of the delete handler.                      *)
(*                                                                         *)
(* A file record is modelled by the fields the handlers decide on: id,     *)
(* size and uploadedAt.  storedName is id + extension, one-to-one with     *)
(* id, so the upload directory is the set of ids whose file exists.        *)
(* uuidv4 is a supply of identifiers never handed out before.              *)
(***************************************************************************)
EXTENDS Integers, Sequences, FiniteSets, Bags, TLC

\* ---------------------------------------------------------------- bounds
MaxInFlight == 2   \* requests in flight at the same time
MaxIds      == 2   \* identifiers uuidv4 hands out in one run
MaxFiles    == 2   \* parts of one upload request
MaxTime     == 2   \* values of the server clock, where it is left open

\* ------------------------------------------------------------- constants
MAX_FILE_SIZE == 104857600

IdSet     == 1..MaxIds
Times     == 1..MaxTime
PartSizes == {1, MAX_FILE_SIZE + 1}

VARIABLES
    doc,        \* content of metadata.json
    disk,       \* ids whose stored file is in UPLOAD_DIR
    nextId,     \* uuidv4: the next identifier never handed out before
    clock,      \* the uploadedAt of the records stored last, 0 before any
    req,        \* bag of the requests in flight, each suspended at an await
    resp,       \* the response the last step sent, NoResponse when none
    acked,      \* history: ids returned in a 201 upload response
    deletedOk   \* history: ids whose delete request answered {ok: true}

vars == <<doc, disk, nextId, clock, req, resp, acked, deletedOk>>

\* ------------------------------------------------------- metadata document
\* metadata.json holds a JSON array of records ("array"), text JSON.parse
\* rejects or a file that cannot be read ("garbage"), or JSON that parses
\* to something that is not an array, such as {} or null ("nonarray").
ArrayDoc(recs) == [kind |-> "array", recs |-> recs]
GarbageDoc     == [kind |-> "garbage", recs |-> <<>>]
NonArrayDoc    == [kind |-> "nonarray", recs |-> <<>>]

\* loadMeta: the value returned.  For a "nonarray" document the value is
\* not a list; LoadIsList tells the handlers so, and the value is unused.
LoadReturn(d) == IF d.kind = "array" THEN d.recs ELSE <<>>

LoadIsList(d) == d.kind # "nonarray"

\* loadMeta: the document it leaves behind (the catch branch rewrites it).
LoadWrite(d) == IF d.kind = "garbage" THEN ArrayDoc(<<>>) ELSE d

\* saveMeta(list)
saveMeta(list) == ArrayDoc(list)

Ids(list) == {list[i].id : i \in DOMAIN list}

\* getFileInfoById / Array.prototype.findIndex: first position whose record
\* has this id, 0 when there is none (JavaScript: -1, positions from 0).
findIndex(list, id) ==
    IF \E i \in DOMAIN list : list[i].id = id
    THEN CHOOSE i \in DOMAIN list :
            /\ list[i].id = id
            /\ \A j \in DOMAIN list : list[j].id = id => i <= j
    ELSE 0

\* splice with the position taken one too far.
spliceOffByOne(list, i) == SubSeq(list, 1, i) \o SubSeq(list, i + 2, Len(list))

\* meta.splice(idx, 1)
splice(list, i) == SubSeq(list, 1, i - 1) \o SubSeq(list, i + 1, Len(list))

\* The comparator with its operands exchanged.
compareOldestFirst(a, b) == a.uploadedAt - b.uploadedAt

\* The comparator of the listing: negative when a goes before b.
compareNewestFirst(a, b) == b.uploadedAt - a.uploadedAt

\* Array.prototype.sort is stable: x goes after every element the comparator
\* does not put after it.
RECURSIVE insertSorted(_, _)
insertSorted(sorted, x) ==
    IF sorted = <<>> THEN <<x>>
    ELSE IF compareNewestFirst(x, Head(sorted)) < 0
         THEN <<x>> \o sorted
         ELSE <<Head(sorted)>> \o insertSorted(Tail(sorted), x)

RECURSIVE sortMeta(_)
sortMeta(list) ==
    IF list = <<>> THEN <<>>
    ELSE insertSorted(sortMeta(SubSeq(list, 1, Len(list) - 1)), list[Len(list)])

\* ------------------------------------------------------------------ upload
\* One uuidv4 per request instead of one per part.
filenameOncePerRequest(first, k) == first

\* multer.diskStorage filename: one uuidv4 per part, in order.
filename(first, k) == first + k - 1

storedIds(first, n) == [k \in 1..n |-> filename(first, k)]

\* The record the upload handler builds for a stored part.
record(id, size, now) == [id |-> id, size |-> size, uploadedAt |-> now]

\* meta after the for loop of the upload handler.
appended(list, files, sizes, now) ==
    list \o [k \in 1..Len(files) |-> record(files[k], sizes[k], now)]

\* saved after the for loop.
savedRecords(files, sizes, now) ==
    [k \in 1..Len(files) |-> record(files[k], sizes[k], now)]

\* multer limits.fileSize: the first part over the limit, 0 when none.
firstTooLarge(sizes) ==
    IF \E k \in DOMAIN sizes : sizes[k] > MAX_FILE_SIZE
    THEN CHOOSE k \in DOMAIN sizes :
            /\ sizes[k] > MAX_FILE_SIZE
            /\ \A j \in DOMAIN sizes : sizes[j] > MAX_FILE_SIZE => k <= j
    ELSE 0

\* ---------------------------------------------------------------- requests
\* A request that has reached an await: an upload whose parts multer has
\* stored ("uploading"), or a delete at `await fsp.unlink(abs)` before
\* ("unlinking") and after ("unlinked", "unlinkFailed") the unlink is done.
UploadInFlight(files, sizes) ==
    [pc |-> "uploading", id |-> 0, files |-> files, sizes |-> sizes,
     meta |-> <<>>, idx |-> 0]

DeleteInFlight(pc, id, meta, idx) ==
    [pc |-> pc, id |-> id, files |-> <<>>, sizes |-> <<>>,
     meta |-> meta, idx |-> idx]

InFlight == BagToSet(req)

Leave(q) == req (-) SetToBag({q})

Enter(bag, q) == bag (+) SetToBag({q})

\* A response: its status (0: nothing was sent) and the records of its body.
Response(kind, id, status, body) ==
    [kind |-> kind, id |-> id, status |-> status, body |-> body]

NoResponse == Response("none", 0, 0, <<>>)

\* res.json(...) writes the response before the handler returns: the event
\* loop runs the next callback with no response pending.
Flushed == resp = NoResponse

\* The server accepts another request.
CanAccept == Flushed /\ BagCardinality(req) < MaxInFlight

\* A handler without try/catch that throws: the promise of the async
\* handler rejects.  Express 4 sends nothing, Express 5 answers 500.
ThrownStatus == {0, 500}

Init ==
    /\ doc = ArrayDoc(<<>>)
    /\ disk = {}
    /\ nextId = 1
    /\ clock = 0
    /\ req = EmptyBag
    /\ resp = NoResponse
    /\ acked = {}
    /\ deletedOk = {}

\* upload.array('files', 10): multer stores the parts, then calls the
\* handler.  A part over limits.fileSize makes multer remove what it stored
\* and call next(err) with code LIMIT_FILE_SIZE: the route handler, and with
\* it the catch that answers 400, never runs; no error middleware is
\* installed, and Express's final handler answers with tooLargeStatus.  The
\* ids of the removed parts are seen nowhere, and nextId stays.
tooLargeStatus == 500

UploadReceive(sizes) ==
    /\ CanAccept
    /\ IF firstTooLarge(sizes) = 0
       THEN LET n == Len(sizes)
            IN /\ nextId + n - 1 <= MaxIds
               /\ nextId' = nextId + n
               /\ disk' = disk \cup {filename(nextId, k) : k \in 1..n}
               /\ req' = Enter(req, UploadInFlight(storedIds(nextId, n), sizes))
               /\ resp' = NoResponse
       ELSE /\ nextId' = nextId
            /\ disk' = disk
            /\ req' = req
            /\ resp' = Response("upload", 0, tooLargeStatus, <<>>)
    /\ UNCHANGED <<doc, clock, acked, deletedOk>>

\* saveMeta called with saved instead of meta.
uploadSavedOnlyNew(meta, saved) == saved

\* The list the upload handler hands to saveMeta.
uploadSaved(meta, saved) == meta

\* POST /api/upload handler, from loadMeta to the response, no await between.
UploadHandle(q, now) ==
    /\ Flushed
    /\ q \in InFlight
    /\ q.pc = "uploading"
    /\ clock' = IF q.files = <<>> THEN clock ELSE now
    /\ LET meta  == appended(LoadReturn(doc), q.files, q.sizes, now)
           saved == savedRecords(q.files, q.sizes, now)
       IN IF LoadIsList(doc)
          THEN /\ doc' = saveMeta(uploadSaved(meta, saved))
               /\ resp' = Response("upload", 0, 201, saved)
               /\ acked' = acked \cup Ids(saved)
          ELSE IF q.files = <<>>
          THEN \* nothing is pushed: the value is written back as it is
               /\ doc' = doc
               /\ resp' = Response("upload", 0, 201, <<>>)
               /\ acked' = acked
          ELSE \* meta.push throws inside the try: 'Upload failed.'
               /\ doc' = doc
               /\ resp' = Response("upload", 0, 500, <<>>)
               /\ acked' = acked
    /\ req' = Leave(q)
    /\ UNCHANGED <<disk, nextId, deletedOk>>

\* The listing saving its sorted copy.
listWriteSorted(d) ==
    IF d.kind = "array" THEN ArrayDoc(sortMeta(d.recs)) ELSE LoadWrite(d)

\* What the listing leaves in metadata.json: only what loadMeta wrote.
listWrite(d) == LoadWrite(d)

\* GET /api/files
List ==
    /\ CanAccept
    /\ doc' = listWrite(doc)
    /\ IF LoadIsList(doc)
       THEN resp' = Response("list", 0, 200, sortMeta(LoadReturn(doc)))
       ELSE \E s \in ThrownStatus : resp' = Response("list", 0, s, <<>>)
    /\ UNCHANGED <<disk, nextId, clock, req, acked, deletedOk>>

\* GET /api/files/:id
Lookup(id) ==
    /\ CanAccept
    /\ doc' = LoadWrite(doc)
    /\ LET meta == LoadReturn(doc)
           i    == findIndex(meta, id)
       IN IF ~LoadIsList(doc)
          THEN \E s \in ThrownStatus : resp' = Response("lookup", id, s, <<>>)
          ELSE IF i = 0
          THEN resp' = Response("lookup", id, 404, <<>>)
          ELSE resp' = Response("lookup", id, 200, <<meta[i]>>)
    /\ UNCHANGED <<disk, nextId, clock, req, acked, deletedOk>>

\* The download handler without its existsSync check.
downloadExistsUnchecked(id) == TRUE

\* fs.existsSync(abs) of the download handler
downloadExists(id) == id \in disk

\* GET /api/files/:id/download
Download(id) ==
    /\ CanAccept
    /\ doc' = LoadWrite(doc)
    /\ LET meta == LoadReturn(doc)
           i    == findIndex(meta, id)
       IN IF ~LoadIsList(doc)
          THEN \E s \in ThrownStatus : resp' = Response("download", id, s, <<>>)
          ELSE IF i = 0
          THEN resp' = Response("download", id, 404, <<>>)
          ELSE IF ~downloadExists(meta[i].id)
          THEN resp' = Response("download", id, 404, <<>>)
          ELSE resp' = Response("download", id, 200, <<>>)
    /\ UNCHANGED <<disk, nextId, clock, req, acked, deletedOk>>

\* The delete handler loading the document again after the await.
deleteSavedReloaded(meta, i) ==
    splice(LoadReturn(doc), findIndex(LoadReturn(doc), meta[i].id))

\* The list the delete handler saves: its own copy without position i.
deleteSaved(meta, i) == splice(meta, i)

\* DELETE /api/files/:id up to the await: load, findIndex, existsSync.  With
\* no file on disk nothing is awaited and the handler runs to its response.
DeleteStart(id) ==
    /\ CanAccept
    /\ LET meta == LoadReturn(doc)
           i    == findIndex(meta, id)
       IN IF ~LoadIsList(doc)
          THEN /\ doc' = doc
               /\ req' = req
               /\ \E s \in ThrownStatus : resp' = Response("delete", id, s, <<>>)
               /\ deletedOk' = deletedOk
          ELSE IF i = 0
          THEN /\ doc' = LoadWrite(doc)
               /\ req' = req
               /\ resp' = Response("delete", id, 404, <<>>)
               /\ deletedOk' = deletedOk
          ELSE IF meta[i].id \in disk
          THEN /\ doc' = doc
               /\ req' = Enter(req, DeleteInFlight("unlinking", id, meta, i))
               /\ resp' = NoResponse
               /\ deletedOk' = deletedOk
          ELSE /\ doc' = saveMeta(deleteSaved(meta, i))
               /\ req' = req
               /\ resp' = Response("delete", id, 200, <<>>)
               /\ deletedOk' = deletedOk \cup {id}
    /\ UNCHANGED <<disk, nextId, clock, acked>>

\* fsp.unlink(abs) is carried out: it removes the file, or fails with ENOENT
\* when another delete request removed it first.
DeleteUnlink(q) ==
    /\ Flushed
    /\ q \in InFlight
    /\ q.pc = "unlinking"
    /\ LET f == q.meta[q.idx].id
       IN IF f \in disk
          THEN /\ disk' = disk \ {f}
               /\ req' = Enter(Leave(q), DeleteInFlight("unlinked", q.id, q.meta, q.idx))
          ELSE /\ disk' = disk
               /\ req' = Enter(Leave(q), DeleteInFlight("unlinkFailed", q.id, q.meta, q.idx))
    /\ resp' = NoResponse
    /\ UNCHANGED <<doc, nextId, clock, acked, deletedOk>>

\* The delete handler resumes after the await: splice, saveMeta, response;
\* or the catch branch: 'Failed to delete'.
DeleteFinish(q) ==
    /\ Flushed
    /\ q \in InFlight
    /\ q.pc \in {"unlinked", "unlinkFailed"}
    /\ IF q.pc = "unlinked"
       THEN /\ doc' = saveMeta(deleteSaved(q.meta, q.idx))
            /\ resp' = Response("delete", q.id, 200, <<>>)
            /\ deletedOk' = deletedOk \cup {q.id}
       ELSE /\ doc' = doc
            /\ resp' = Response("delete", q.id, 500, <<>>)
            /\ deletedOk' = deletedOk
    /\ req' = Leave(q)
    /\ UNCHANGED <<disk, nextId, clock, acked>>

\* Something outside the server damages metadata.json.
Corrupt(d) ==
    /\ Flushed
    /\ doc.kind = "array"
    /\ doc' = d
    /\ resp' = NoResponse
    /\ UNCHANGED <<disk, nextId, clock, req, acked, deletedOk>>

\* The response has gone out.
Sent ==
    /\ ~Flushed
    /\ resp' = NoResponse
    /\ UNCHANGED <<doc, disk, nextId, clock, req, acked, deletedOk>>

PartLists == UNION {[1..n -> PartSizes] : n \in 0..MaxFiles}

\* The server and its clients, requests overlapping.  The clock has moved on
\* whenever an upload handler reads it.
Next ==
    \/ \E sizes \in PartLists : UploadReceive(sizes)
    \/ \E q \in InFlight : UploadHandle(q, clock + 1)
    \/ List
    \/ \E id \in IdSet : Lookup(id)
    \/ \E id \in IdSet : Download(id)
    \/ \E id \in IdSet : DeleteStart(id)
    \/ \E q \in InFlight : DeleteUnlink(q)
    \/ \E q \in InFlight : DeleteFinish(q)
    \/ Sent

Spec == Init /\ [][Next]_vars

\* Clients that only upload.
NextUploads ==
    \/ \E sizes \in PartLists : UploadReceive(sizes)
    \/ \E q \in InFlight, now \in Times : UploadHandle(q, now)
    \/ Sent

SpecUploads == Init /\ [][NextUploads]_vars

\* One client that waits for each response before its next request.  The
\* clock shows any value: two uploads in the same millisecond, a clock set back.
Quiet == req = EmptyBag

NextSeq ==
    \/ \E sizes \in PartLists : Quiet /\ UploadReceive(sizes)
    \/ \E q \in InFlight, now \in Times : UploadHandle(q, now)
    \/ Quiet /\ List
    \/ \E id \in IdSet : Quiet /\ Lookup(id)
    \/ \E id \in IdSet : Quiet /\ Download(id)
    \/ \E id \in IdSet : Quiet /\ DeleteStart(id)
    \/ \E q \in InFlight : DeleteUnlink(q)
    \/ \E q \in InFlight : DeleteFinish(q)
    \/ Sent

SpecSeq == Init /\ [][NextSeq]_vars

\* The same client, and damage to metadata.json from outside.
NextCorrupt ==
    \/ NextSeq
    \/ \E d \in {GarbageDoc, NonArrayDoc} : Corrupt(d)

SpecCorrupt == Init /\ [][NextCorrupt]_vars

TypeOK ==
    /\ doc.kind \in {"array", "garbage", "nonarray"}
    /\ disk \subseteq IdSet
    /\ nextId \in 1..(MaxIds + 1)
    /\ BagCardinality(req) <= MaxInFlight
    /\ \A q \in InFlight : q.pc \in {"uploading", "unlinking", "unlinked", "unlinkFailed"}

\* ------------------------------------------------------------------ claims
Count(list, x) == Cardinality({i \in DOMAIN list : list[i] = x})

Inverted(list) ==
    \E i, j \in DOMAIN list : i < j /\ list[i].id > list[j].id

\* C1: a successful upload of N >= 1 files leaves the store equal to the
\* previous store followed by exactly N new records, one per stored file;
\* their ids are pairwise distinct, none was in the store before, and the
\* 201 response lists exactly these records.
C1_UploadAddsExactlyN ==
    [][\A q \in InFlight :
         (UploadHandle(q, clock + 1) /\ Len(q.files) >= 1 /\ resp'.status = 201)
         => LET N   == Len(q.files)
                old == LoadReturn(doc)
            IN /\ Len(resp'.body) = N
               /\ \A k \in 1..N : resp'.body[k].id = q.files[k]
               /\ Cardinality(Ids(resp'.body)) = N
               /\ Ids(resp'.body) \cap Ids(old) = {}
               /\ doc' = ArrayDoc(old \o resp'.body)]_vars

C1_Witness ==
    /\ resp.kind = "upload" /\ resp.status = 201 /\ Len(resp.body) >= 1
    /\ doc.kind = "array"
    /\ Len(doc.recs) > Len(resp.body)
    /\ SubSeq(doc.recs, Len(doc.recs) - Len(resp.body) + 1, Len(doc.recs)) = resp.body

\* C2: with requests handled one after the other, a delete of an id in the
\* store answers success and leaves neither the record nor the file; every
\* later delete of that id answers 404 and changes neither store nor disk.
C2_DeleteTwice ==
    [][/\ \A q \in InFlight :
            DeleteFinish(q)
            => /\ resp' = Response("delete", q.id, 200, <<>>)
               /\ q.id \notin Ids(doc'.recs)
               /\ q.id \notin disk'
       /\ \A id \in IdSet :
            /\ (DeleteStart(id) /\ id \in Ids(doc.recs) /\ id \notin disk)
               => /\ resp' = Response("delete", id, 200, <<>>)
                  /\ id \notin Ids(doc'.recs)
            /\ (DeleteStart(id) /\ id \in Ids(doc.recs) /\ id \in disk)
               => \E q \in BagToSet(req') : q.pc = "unlinking" /\ q.id = id
            /\ (DeleteStart(id) /\ id \in deletedOk)
               => /\ resp' = Response("delete", id, 404, <<>>)
                  /\ doc' = doc
                  /\ disk' = disk]_vars

C2_Witness ==
    /\ resp = Response("delete", resp.id, 404, <<>>)
    /\ resp.id \in deletedOk
    /\ resp.id \in acked
    /\ resp.id \notin disk

\* C3: an upload request with a part over the configured maximum size is
\* answered 400 and adds no record.
C3_TooLargeIs400 ==
    [][\A sizes \in PartLists :
         (UploadReceive(sizes) /\ firstTooLarge(sizes) # 0)
         => /\ resp'.kind = "upload"
            /\ resp'.status = 400
            /\ doc' = doc]_vars

\* C4: when metadata.json is unreadable or has invalid content, the next
\* load resets it to the empty sequence and the request answers as it does
\* for an empty store.
C4_InvalidDocumentRecovers ==
    [][doc.kind # "array" =>
         /\ List => /\ doc' = ArrayDoc(<<>>)
                    /\ resp' = Response("list", 0, 200, <<>>)
         /\ \A id \in IdSet :
              /\ Lookup(id) => /\ doc' = ArrayDoc(<<>>)
                               /\ resp' = Response("lookup", id, 404, <<>>)
              /\ Download(id) => /\ doc' = ArrayDoc(<<>>)
                                 /\ resp' = Response("download", id, 404, <<>>)
              /\ DeleteStart(id) => /\ doc' = ArrayDoc(<<>>)
                                    /\ resp' = Response("delete", id, 404, <<>>)
         /\ \A q \in InFlight, now \in Times :
              UploadHandle(q, now) => /\ resp'.status = 201
                                      /\ Len(resp'.body) = Len(q.files)
                                      /\ doc' = ArrayDoc(resp'.body)]_vars

\* C5: the listing returns every record of the store exactly once, and a
\* record with a strictly later uploadedAt comes before one with an earlier.
C5_ListingNewestFirst ==
    [][List
       => /\ resp'.kind = "list" /\ resp'.status = 200
          /\ Len(resp'.body) = Len(doc.recs)
          /\ \A i \in DOMAIN doc.recs :
                Count(resp'.body, doc.recs[i]) = Count(doc.recs, doc.recs[i])
          /\ \A i, j \in DOMAIN resp'.body :
                resp'.body[i].uploadedAt > resp'.body[j].uploadedAt => i < j]_vars

C5_Witness ==
    /\ resp.kind = "list" /\ resp.status = 200
    /\ Len(resp.body) >= 2
    /\ resp.body[1].uploadedAt > resp.body[Len(resp.body)].uploadedAt
    /\ Len(doc.recs) = Len(resp.body)
    /\ doc.recs[1] = resp.body[Len(resp.body)]

\* C6: once a delete of an id has answered success, every later download of
\* that id answers 404, whatever requests run before or around it.
C6_DeletedNotDownloadable ==
    [][\A id \in IdSet :
         (Download(id) /\ id \in deletedOk)
         => resp' = Response("download", id, 404, <<>>)]_vars

\* The record is back in the store, and the download still answers 404.
C6_Witness ==
    /\ resp = Response("download", resp.id, 404, <<>>)
    /\ resp.id \in deletedOk
    /\ resp.id \in Ids(doc.recs)

\* C7 as stated: the listing leaves metadata.json and the upload directory
\* as they were, whatever state the document is in.
C7_ListingPureRead ==
    [][List => (doc' = doc /\ disk' = disk)]_vars

\* C7 amended: the listing leaves the upload directory as it was, and
\* metadata.json too unless it cannot be read or parsed, in which case it is
\* reset to the empty sequence; the sorted order is never written back.
C7_ListingWritesOnlyReset ==
    [][List
       => /\ disk' = disk
          /\ doc.kind # "garbage" => doc' = doc
          /\ doc.kind = "garbage" => doc' = ArrayDoc(<<>>)]_vars

C7_Witness ==
    /\ resp.kind = "list" /\ resp.status = 200
    /\ doc.kind = "array"
    /\ Len(resp.body) >= 2
    /\ Ids(resp.body) = Ids(doc.recs)
    /\ resp.body # doc.recs

\* C8 as stated, for two uploads that overlapped (the one that stored its
\* parts first saved last) and both answered 201: the store lacks a record
\* of one of them.
C8_OverlappingUploadsLoseWrite ==
    (Quiet /\ doc.kind = "array" /\ Inverted(doc.recs))
    => \E id \in acked : id \notin Ids(doc.recs)

\* C8 amended: with uploads alone, every record returned in a 201 response
\* is in the store in every later state.
C8_NoLostUpload ==
    /\ doc.kind = "array"
    /\ acked \subseteq Ids(doc.recs)

C8_Witness ==
    /\ Quiet
    /\ Inverted(doc.recs)
    /\ Cardinality(acked) >= 2
    /\ acked = Ids(doc.recs)

\* C9: when a delete that loaded the store before an upload saved resumes
\* after its unlink, its save removes the upload's records from the store;
\* the delete answers success and the upload's files stay on disk.
C9_StaleDeleteDropsUpload ==
    [][\A q \in InFlight :
         (DeleteFinish(q) /\ q.pc = "unlinked")
         => /\ resp' = Response("delete", q.id, 200, <<>>)
            /\ \A id \in (acked \cap Ids(doc.recs)) \ Ids(q.meta) :
                  /\ id \notin Ids(doc'.recs)
                  /\ id \in disk => id \in disk']_vars

\* Both requests have answered; the upload's record is gone, its file is not.
C9_Witness ==
    /\ resp.kind = "delete" /\ resp.status = 200
    /\ Quiet
    /\ \E id \in acked :
          /\ id \in disk
          /\ id \notin Ids(doc.recs)
          /\ id \notin deletedOk

\* C10: once a delete of an id has answered success, no record with that id
\* is in the store in any later state.
C10_DeletedNeverReappears ==
    \A id \in deletedOk : id \notin Ids(LoadReturn(doc))
====
